---- MODULE Spec2Model ----
(***************************************************************************)
(* Model of the presentation-generation workflow:                          *)
(*   - generate_powerpoint_presentation (app/ppt_gen/ppt_generator_agent)  *)
(*     streaming the supervisor graph and classifying the final outputs,   *)
(*   - the tools the agents call: create_project_folder,                   *)
(*     validate_ppt_code, execute_ppt_code (app/ppt_gen/tools_ppt) and     *)
(*     send_presentation_email (app/email/email_tools),                    *)
(*   - the supervisor's routing as its prompt states it                    *)
(*     (app/ppt_gen/prompts.py, supervisor_prompt).                        *)
(* The language models are external: what they write (the candidate        *)
(* source, the wording of a report, the choice the prompt leaves open) is  *)
(* an input chosen with \E.                                                *)
(***************************************************************************)
EXTENDS Integers, Sequences, FiniteSets, TLC

\* ------------------------------------------------------------------ bounds
\* Events of supervisor.stream consumed by one run before the graph gives up.
MaxEvents == 13
\* Largest value of the request's max_iterations state field.
MaxIterations == 2
\* Longest candidate text (in tokens) given to the save-path rewrite.
MaxTokens == 4
\* Most occurrences of one pattern in the content arguments of a source.
MaxOccurrences == 2
\* Seconds of the wall clock that pass while two requests are served.
MaxSeconds == 2
\* Calls of execute_ppt_code made on one project folder.
MaxCalls == 2

\* ------------------------------------------------------------- vocabulary
Planner   == "content_planner_agent"
Generator == "ppt_code_generator_agent"
Validator == "code_validator_agent"
Executor  == "ppt_executor_agent"
Emailer   == "email_sender_agent"
Supervisor == "supervisor"
EndNode   == "__end__"

Agents == {Planner, Generator, Validator, Executor, Emailer}

\* Substrings the final classification looks for in an agent's last message.
GeneratedOk == "PowerPoint presentation generated successfully"
PptPathKey  == "ppt_path"
StatusRe    == "status.*success"
CreatedRe   == "presentation.*created"
EmailOk     == "Email sent successfully"
CheckMark   == "check_mark"
CrossMark   == "cross_mark"

success_indicators == {GeneratedOk, PptPathKey, StatusRe, CreatedRe}

\* ---------------------------------------------------------- candidate code
\* A candidate source, by the substrings the tools test for.
\*   template_import: "create_template" when the text holds
\*     'from ppt_templates import create_template', "other" when it holds
\*     'from ppt_templates import' followed by something else, "none".
\*   uses_template: 'create_template(' occurs;
\*   theme_call: how the factory calls name a theme: "double_quoted" for
\*     one 'create_template("<theme>")' with a known theme, "single_quoted"
\*     for one "create_template('<theme>')", "two_themes" for two
\*     double-quoted calls with different themes, "none" otherwise;
\*   constructs_presentation: 'Presentation()' occurs;
\*   imports_pptx: 'from pptx import Presentation' or 'import pptx' occurs;
\*   saves: '.save(' occurs;
\*   has_slides: a template slide method is named;
\*   content_slide: 'create_content_slide' occurs;
\*   leaks: for each problematic pattern, how often it occurs in the text
\*     arguments of create_content_slide calls, and whether it occurs
\*     anywhere else in the text (an image path, a comment).
ThemeCalls == {"none", "double_quoted", "single_quoted", "two_themes"}

LeakPatterns == << "Visual note:", ".jpg" >>

LeakPatternSet == { LeakPatterns[i] : i \in DOMAIN LeakPatterns }

LeakSets ==
    [ LeakPatternSet -> [ in_content : 0..MaxOccurrences, elsewhere : BOOLEAN ] ]

NoLeaks == [ p \in LeakPatternSet |-> [ in_content |-> 0, elsewhere |-> FALSE ] ]

\* Every source text validate_ppt_code can tell apart.
ValidatorInputs ==
    { c \in [ syntax_valid : BOOLEAN,
              template_import : {"create_template", "other", "none"},
              uses_template : BOOLEAN,
              theme_call : ThemeCalls,
              constructs_presentation : BOOLEAN,
              imports_pptx : BOOLEAN,
              saves : BOOLEAN,
              has_slides : BOOLEAN,
              content_slide : BOOLEAN,
              leaks : LeakSets ] :
        \* one substring holds the other
        /\ (c.theme_call # "none" => c.uses_template)
        /\ (c.content_slide => c.has_slides)
        /\ \A p \in LeakPatternSet :
             c.leaks[p].in_content > 0 => c.content_slide }

\* A candidate of a representative family: the factory call, a theme and the
\* slide methods go with the import; raw code imports pptx and constructs a
\* Presentation; nothing leaks.
Candidate(syntax_valid, template_import, raw, saves) ==
    [ syntax_valid |-> syntax_valid,
      template_import |-> template_import,
      uses_template |-> template_import = "create_template",
      theme_call |-> IF template_import = "create_template"
                     THEN "double_quoted" ELSE "none",
      constructs_presentation |-> raw,
      imports_pptx |-> raw,
      saves |-> saves,
      has_slides |-> template_import = "create_template",
      content_slide |-> template_import = "create_template",
      leaks |-> NoLeaks ]

\* The candidates the generator is taken to write.
CandidateSources ==
    { c \in { Candidate(syntax_valid, template_import, raw, saves) :
                syntax_valid \in BOOLEAN,
                template_import \in {"create_template", "other", "none"},
                raw \in BOOLEAN,
                saves \in BOOLEAN } :
        ~c.syntax_valid => ~c.saves }

NoCode == [ syntax_valid |-> FALSE, template_import |-> "none",
            uses_template |-> FALSE, theme_call |-> "none",
            constructs_presentation |-> FALSE, imports_pptx |-> FALSE,
            saves |-> FALSE, has_slides |-> FALSE, content_slide |-> FALSE,
            leaks |-> NoLeaks ]

VARIABLES
    email_recipient,   \* TRUE when the request names a recipient
    max_iterations,    \* PPTGeneratorState.max_iterations of the request
    template_on_path,  \* os.path.exists(r"app\ppt_gen\ppt_templates.py")
    pc,                \* "streaming" | "returned"
    node,              \* node of the graph that runs next
    last_agent,        \* the agent that ran last ("none" at the start)
    events,            \* stream events consumed so far
    workflow_log,      \* the ordered history
    agent_outputs,     \* last message of every node that spoke
    result,            \* the dict generate_powerpoint_presentation returns
    ppt_code,          \* the candidate source under discussion
    has_code,          \* a candidate has been generated
    validation,        \* report for ppt_code: "none" | "pass" | "fail"
    execution,         \* record of the last execute_ppt_code call
    fs,                \* the files of the request's project folder
    email,             \* record of the last send_presentation_email call
    counters,          \* history counters used to state the claims
    log_file,          \* records validate_ppt_code wrote to ppt_generator.log
    rw_pc, src, out_path, rewritten, rewritten_twice,
                       \* the save-path rewrite applied to a token text
    pres_var,          \* the name the source binds its presentation to
    val_pc, val_src, val_report,
                       \* validate_ppt_code applied to a source on its own
    ws_pc, ws_topic, ws_now, ws_folder, ws_dirs, ws_built, ws_writes
                       \* two requests and the directories they work in

wfvars == << email_recipient, max_iterations, template_on_path, pc, node,
             last_agent, events, workflow_log, agent_outputs, result,
             ppt_code, has_code, validation, execution, fs, email, counters >>
rwvars == << rw_pc, src, out_path, rewritten, rewritten_twice, pres_var >>
vlvars == << val_pc, val_src, val_report >>
wsvars == << ws_pc, ws_topic, ws_now, ws_folder, ws_dirs, ws_built, ws_writes >>
auxvars == << rwvars, vlvars, wsvars >>
vars == << wfvars, log_file, auxvars >>

\* ------------------------------------------------------- validate_ppt_code
MissingImport  == "CRITICAL: Missing template import"
MissingFactory == "CRITICAL: Must use template system"
RawPptx        == "CRITICAL: Raw python-pptx usage detected"
SyntaxError    == "Syntax error"

\* The blocking findings ("errors") of the report, in the order the code
\* appends them.
ThemeWarning   == "Template theme not clearly specified"
SaveWarning    == "Presentation save method not found"
SlidesWarning  == "No template slide creation methods found"
\* f"WARNING: Found '{pattern}' in code - ..."
LeakWarning(pattern) ==
    CASE pattern = "Visual note:" -> "WARNING: Found 'Visual note:' in code"
      [] pattern = ".jpg" -> "WARNING: Found '.jpg' in code"

imports_template(code) == code.template_import = "create_template"

\* f'create_template("{theme}")' in code_text, for some theme of the list.
template_theme_selected(code) ==
    code.theme_call \in {"double_quoted", "two_themes"}

uses_raw_pptx(code) == code.constructs_presentation \/ code.imports_pptx

\* Variant: the import is not asked for.
ValidationErrors_ImportNotRequired(code) ==
    IF ~code.syntax_valid
    THEN << SyntaxError >>
    ELSE (IF ~code.uses_template THEN << MissingFactory >> ELSE << >>)
         \o (IF uses_raw_pptx(code) THEN << RawPptx >> ELSE << >>)

\* Variant: the other checks run on a text that does not parse.
ValidationErrors_NoShortCircuit(code) ==
    (IF ~code.syntax_valid THEN << SyntaxError >> ELSE << >>)
    \o (IF ~imports_template(code) THEN << MissingImport >> ELSE << >>)
    \o (IF ~code.uses_template THEN << MissingFactory >> ELSE << >>)
    \o (IF uses_raw_pptx(code) THEN << RawPptx >> ELSE << >>)

\* Variant: importing pptx without constructing a Presentation is let through.
ValidationErrors_ConstructionOnly(code) ==
    IF ~code.syntax_valid
    THEN << SyntaxError >>
    ELSE (IF ~imports_template(code) THEN << MissingImport >> ELSE << >>)
         \o (IF ~code.uses_template THEN << MissingFactory >> ELSE << >>)
         \o (IF code.constructs_presentation THEN << RawPptx >> ELSE << >>)

ValidationErrors(code) ==
    IF ~code.syntax_valid
    THEN << SyntaxError >>
    ELSE (IF ~imports_template(code) THEN << MissingImport >> ELSE << >>)
         \o (IF ~code.uses_template THEN << MissingFactory >> ELSE << >>)
         \o (IF uses_raw_pptx(code) THEN << RawPptx >> ELSE << >>)

\* One warning per problematic pattern found, in the order of the list, when
\* the text names create_content_slide.
\* pattern in code_text
PatternInText(code, pattern) ==
    code.leaks[pattern].in_content > 0 \/ code.leaks[pattern].elsewhere

RECURSIVE LeakWarnings(_, _)
LeakWarnings(code, i) ==
    IF i > Len(LeakPatterns) THEN << >>
    ELSE (IF PatternInText(code, LeakPatterns[i]) /\ code.content_slide
          THEN << LeakWarning(LeakPatterns[i]) >> ELSE << >>)
         \o LeakWarnings(code, i + 1)

\* The "warnings" of the report, in the order the code appends them.
ValidationWarnings(code) ==
    IF ~code.syntax_valid
    THEN << >>
    ELSE LeakWarnings(code, 1)
         \o (IF ~template_theme_selected(code) THEN << ThemeWarning >> ELSE << >>)
         \o (IF ~code.saves THEN << SaveWarning >> ELSE << >>)
         \o (IF ~code.has_slides THEN << SlidesWarning >> ELSE << >>)

validate_ppt_code(code) ==
    [ syntax_valid |-> code.syntax_valid,
      errors |-> ValidationErrors(code),
      warnings |-> ValidationWarnings(code) ]

NoReport == [ syntax_valid |-> FALSE, errors |-> << >>, warnings |-> << >> ]

ReportPasses(report) == report.errors = << >>

\* ------------------------------------------------ check_pptx_installation
\* What the interpreter answers to "import pptx" and to "pip install".
PptxStates ==
    {"installed", "installable", "install_unverified", "install_fails",
     "times_out"}

\* The status returned and the number of installations attempted.
check_pptx_installation(pptx) ==
    CASE pptx = "installed" ->
            [ status |-> "already_installed", installs |-> 0 ]
      [] pptx = "installable" ->
            [ status |-> "newly_installed", installs |-> 1 ]
      [] pptx = "install_unverified" ->
            [ status |-> "error", installs |-> 1 ]
      [] pptx = "install_fails" ->
            [ status |-> "error", installs |-> 1 ]
      [] pptx = "times_out" ->
            [ status |-> "error", installs |-> 0 ]

\* ------------------------------------------------------- execute_ppt_code
OutputPath == "presentations/presentation.pptx"

\* What the child process does once spawned.
ChildBehaviours ==
    { [ outcome |-> "exit0",   saves |-> TRUE,  stderr |-> "",          stdout |-> "log" ],
      [ outcome |-> "exit0",   saves |-> FALSE, stderr |-> "",          stdout |-> "log" ],
      [ outcome |-> "nonzero", saves |-> FALSE, stderr |-> "Traceback", stdout |-> "log" ],
      [ outcome |-> "nonzero", saves |-> FALSE, stderr |-> "",          stdout |-> "log" ],
      [ outcome |-> "nonzero", saves |-> TRUE,  stderr |-> "Traceback", stdout |-> "" ],
      [ outcome |-> "timeout", saves |-> FALSE, stderr |-> "",          stdout |-> "" ],
      [ outcome |-> "timeout", saves |-> TRUE,  stderr |-> "",          stdout |-> "" ] }

\* A source that does not parse makes the interpreter exit non-zero at once.
ChildOf(code) ==
    IF code.syntax_valid
    THEN ChildBehaviours
    ELSE { b \in ChildBehaviours :
             b.outcome = "nonzero" /\ ~b.saves /\ b.stderr # "" }

NoChild == [ outcome |-> "none", saves |-> FALSE, stderr |-> "", stdout |-> "" ]

ExecReturn(status, path, kind, error, child, spawned, present) ==
    [ status |-> status, ppt_path |-> path, kind |-> kind, error |-> error,
      spawned |-> spawned, exit |-> child.outcome, stderr |-> child.stderr,
      stdout |-> child.stdout, saved |-> child.saves,
      artifact_present |-> present ]

\* Variant: exit code 0 taken for success without looking for the file.
Classify_NoExistsCheck(child, present) ==
    IF child.outcome = "timeout"
    THEN ExecReturn("error", "", "timed_out", "", child, TRUE, present)
    ELSE IF child.outcome = "exit0"
    THEN ExecReturn("success", OutputPath, "generated", "", child, TRUE, present)
    ELSE ExecReturn("error", "", "failed",
                    IF child.stderr # "" THEN child.stderr ELSE child.stdout,
                    child, TRUE, present)

\* The classification of a finished child (returncode, output_path.exists()).
Classify(child, present) ==
    IF child.outcome = "timeout"
    THEN ExecReturn("error", "", "timed_out", "", child, TRUE, present)
    ELSE IF child.outcome = "exit0"
    THEN IF present
         THEN ExecReturn("success", OutputPath, "generated", "", child, TRUE, present)
         ELSE ExecReturn("warning", "", "no_file", "", child, TRUE, present)
    ELSE ExecReturn("error", "", "failed",
                    IF child.stderr # "" THEN child.stderr ELSE child.stdout,
                    child, TRUE, present)

\* Variant: with the template found, both copies are made and the call
\* goes on to write the code file and run the child.
execute_ppt_code_TemplateCopied(code, f, tmpl, child) ==
    IF code.template_import # "none" /\ ~tmpl
    THEN [ ret |-> ExecReturn("error", "", "template_missing", "", NoChild, FALSE, f.artifact),
           fs |-> f, spawns |-> 0 ]
    ELSE IF ~f.folder
    THEN [ ret |-> ExecReturn("error", "", "exception", "", NoChild, FALSE, f.artifact),
           fs |-> f, spawns |-> 0 ]
    ELSE LET present == f.artifact \/ child.saves
         IN [ ret |-> Classify(child, present),
              fs |-> [ f EXCEPT !.code_file = TRUE, !.artifact = present,
                                !.template_copy = @ \/ code.template_import # "none" ],
              spawns |-> 1 ]

\* Variant: a child that did not exit with code 0 is run a second time.
execute_ppt_code_Retry(code, f, tmpl, child) ==
    IF code.template_import # "none"
    THEN IF ~tmpl
         THEN [ ret |-> ExecReturn("error", "", "template_missing", "", NoChild, FALSE, f.artifact),
                fs |-> f, spawns |-> 0 ]
         ELSE \* copy2 into the project folder, then str.exists() raises
              [ ret |-> ExecReturn("error", "", "exception", "", NoChild, FALSE, f.artifact),
                fs |-> [ f EXCEPT !.template_copy = f.folder ], spawns |-> 0 ]
    ELSE IF ~f.folder
    THEN \* open(code_file, 'w') raises: no such directory
         [ ret |-> ExecReturn("error", "", "exception", "", NoChild, FALSE, f.artifact),
           fs |-> f, spawns |-> 0 ]
    ELSE LET present == f.artifact \/ child.saves
         IN [ ret |-> Classify(child, present),
              fs |-> [ f EXCEPT !.code_file = TRUE, !.artifact = present ],
              spawns |-> IF child.outcome = "exit0" THEN 1 ELSE 2 ]

\* execute_ppt_code on `code` with the files `f`: the record it returns, the
\* files it leaves and the number of times it ran subprocess.run.
execute_ppt_code(code, f, tmpl, child) ==
    IF code.template_import # "none"
    THEN IF ~tmpl
         THEN [ ret |-> ExecReturn("error", "", "template_missing", "", NoChild, FALSE, f.artifact),
                fs |-> f, spawns |-> 0 ]
         ELSE \* copy2 into the project folder, then str.exists() raises
              [ ret |-> ExecReturn("error", "", "exception", "", NoChild, FALSE, f.artifact),
                fs |-> [ f EXCEPT !.template_copy = f.folder ], spawns |-> 0 ]
    ELSE IF ~f.folder
    THEN \* open(code_file, 'w') raises: no such directory
         [ ret |-> ExecReturn("error", "", "exception", "", NoChild, FALSE, f.artifact),
           fs |-> f, spawns |-> 0 ]
    ELSE LET present == f.artifact \/ child.saves
         IN [ ret |-> Classify(child, present),
              fs |-> [ f EXCEPT !.code_file = TRUE, !.artifact = present ],
              spawns |-> 1 ]

NoExecution ==
    [ called |-> FALSE, code |-> NoCode, validated |-> "none",
      dependency |-> "none", artifact_before |-> FALSE, spawns |-> 0,
      ret |-> ExecReturn("none", "", "none", "", NoChild, FALSE, FALSE) ]

\* ------------------------------------------------ send_presentation_email
SmtpOutcomes == {"ok", "no_credentials", "smtp_error"}

send_presentation_email(path, f, smtp) ==
    [ success |-> smtp = "ok",
      attached |-> smtp = "ok" /\ path # "" /\ f.artifact,
      text |-> IF smtp = "ok" THEN {CheckMark, EmailOk} ELSE {CrossMark} ]

\* The ppt_path argument the email agent fills in: the path the execution
\* returned, and when it returned none, nothing or the path the
\* presentation was to be written to.
AttachmentPaths(ret) ==
    IF ret.ppt_path # "" THEN {ret.ppt_path} ELSE {"", OutputPath}

NoEmail == [ called |-> FALSE, success |-> FALSE, attached |-> FALSE,
             path |-> "",
             after |-> "none", stage |-> "none" ]

\* ------------------------------------------------- what an agent reports
\* An agent's last message either quotes its tool's result or rewords it.
ReportStyles == {"verbatim", "reworded"}

ExecutorMessage(ret, style) ==
    IF style = "verbatim"
    THEN {PptPathKey} \cup (IF ret.kind = "generated" THEN {GeneratedOk} ELSE {})
    ELSE {}

EmailerMessage(sent, style) ==
    IF style = "verbatim" THEN sent.text ELSE {}

\* ------------------------------------------------------------ empty state
NoFiles == [ folder |-> FALSE, code_file |-> FALSE, template_copy |-> FALSE,
             artifact |-> FALSE ]

NoCounters == [ iteration_count |-> 0, generations |-> 0, passing |-> 0,
                executions |-> 0, sends |-> 0 ]

\* ppt_path: "None" for the key bound to None, "absent" for no such key.
NoResult == [ success |-> FALSE, email_sent |-> FALSE, error |-> "none",
              delivery_status |-> FALSE, ppt_path |-> "absent",
              history |-> << >> ]

Nodes == Agents \cup {Supervisor}

\* ------------------------------------- the save-path rewrite, on the text
\* A source text as a sequence of tokens: the literal ".save(", the two
\* parentheses, and any other run of characters.
SaveTok  == ".save("
OpenTok  == "("
CloseTok == ")"
OtherTok == "x"
SourceTokens == {SaveTok, OpenTok, CloseTok, OtherTok}

\* output_path_str: the project folder's name holds the request's topic
\* as given, so the path may itself hold parentheses.
OutputPaths == { << "p" >>, << "p", OpenTok, "p", CloseTok, "p" >> }

\* r"<output_path_str>"
SaveArgument(out) == << "r\"" >> \o out \o << "\"" >>

Texts(n) == UNION { [ 1..k -> SourceTokens ] : k \in 0..n }

Contains(text, tok) == \E i \in 1..Len(text) : text[i] = tok

FirstClose(text) ==
    CHOOSE j \in 2..Len(text) :
        text[j] = CloseTok /\ \A k \in 2..(j - 1) : text[k] # CloseTok

\* re.sub(r'\.save\([^)]*\)', '.save(r"<out>")', text): leftmost
\* non-overlapping matches, each running to the first ")".
RECURSIVE ReSub(_, _)
ReSub(text, out) ==
    IF text = << >> THEN << >>
    ELSE IF Head(text) = SaveTok /\ \E j \in 2..Len(text) : text[j] = CloseTok
    THEN << SaveTok >> \o SaveArgument(out) \o << CloseTok >>
         \o ReSub(SubSeq(text, FirstClose(text) + 1, Len(text)), out)
    ELSE << Head(text) >> \o ReSub(Tail(text), out)

\* The names a source may bind its presentation to: the generator prompt's
\* "ppt = create_template(...)", and "prs".
PresentationNames == {"ppt", "prs"}

\* '\n\n# Save the presentation\nprs.save(r"<out>")'
AppendedSave(out) ==
    << "prs", SaveTok >> \o SaveArgument(out) \o << CloseTok >>

\* Lines 333-340 of execute_ppt_code.
RelocateSave(text, out) ==
    IF Contains(text, SaveTok)
    THEN ReSub(text, out)
    ELSE text \o AppendedSave(out)

\* -- the relocation as it is stated, to compare the rewrite with
Opens(tok) == tok \in {SaveTok, OpenTok}

\* Nesting depth after each prefix of the text.
RECURSIVE Depth(_, _)
Depth(text, n) ==
    IF n = 0 THEN 0
    ELSE Depth(text, n - 1)
         + (IF Opens(text[n]) THEN 1 ELSE IF text[n] = CloseTok THEN -1 ELSE 0)

Balanced(text) ==
    /\ Depth(text, Len(text)) = 0
    /\ \A n \in 0..Len(text) : Depth(text, n) >= 0

\* The ")" that closes the call opened by the first token of the text.
MatchingClose(text) ==
    CHOOSE j \in 2..Len(text) :
        Depth(text, j) = 0 /\ \A k \in 1..(j - 1) : Depth(text, k) > 0

\* Every save call's whole argument replaced, the rest kept.
RECURSIVE SaveCallsRelocated(_, _)
SaveCallsRelocated(text, out) ==
    IF text = << >> THEN << >>
    ELSE IF Head(text) = SaveTok
    THEN << SaveTok >> \o SaveArgument(out) \o << CloseTok >>
         \o SaveCallsRelocated(SubSeq(text, MatchingClose(text) + 1, Len(text)), out)
    ELSE << Head(text) >> \o SaveCallsRelocated(Tail(text), out)

\* No workflow runs while the rewrite is exercised on its own.
WfIdle ==
    /\ email_recipient = FALSE
    /\ max_iterations = 1
    /\ template_on_path = FALSE
    /\ pc = "idle"
    /\ node = Supervisor
    /\ last_agent = "none"
    /\ events = 0
    /\ workflow_log = << >>
    /\ agent_outputs = [ n \in Nodes |-> {} ]
    /\ result = NoResult
    /\ ppt_code = NoCode
    /\ has_code = FALSE
    /\ validation = "none"
    /\ execution = NoExecution
    /\ fs = NoFiles
    /\ email = NoEmail
    /\ counters = NoCounters
    /\ log_file = 0

\* The text-rewrite variables rest while another part is exercised.
RwIdle ==
    /\ rw_pc = "idle"
    /\ src = << >>
    /\ out_path = << >>
    /\ rewritten = << >>
    /\ rewritten_twice = << >>
    /\ pres_var = "none"

\* The two-request variables rest while another part is exercised.
WsIdle ==
    /\ ws_pc = << >>
    /\ ws_topic = << >>
    /\ ws_now = 0
    /\ ws_folder = << >>
    /\ ws_dirs = {}
    /\ ws_built = {}
    /\ ws_writes = {}

\* The validator variables rest while another part is exercised.
VlIdle ==
    /\ val_pc = "idle"
    /\ val_src = NoCode
    /\ val_report = NoReport

\* execute_ppt_code is handed a candidate text and a project folder.
RwInit ==
    /\ rw_pc = "given"
    /\ src \in Texts(MaxTokens)
    /\ out_path \in OutputPaths
    /\ pres_var \in PresentationNames
    /\ rewritten = << >>
    /\ rewritten_twice = << >>
    /\ WfIdle
    /\ VlIdle
    /\ WsIdle

\* The rewrite of one execute_ppt_code call.
Rewrite ==
    /\ rw_pc = "given"
    /\ rewritten' = RelocateSave(src, out_path)
    /\ rw_pc' = "rewritten"
    /\ UNCHANGED << src, out_path, pres_var, rewritten_twice, wfvars,
                    log_file, vlvars, wsvars >>

\* The rewritten text handed to execute_ppt_code again (a re-execution).
RewriteAgain ==
    /\ rw_pc = "rewritten"
    /\ rewritten_twice' = RelocateSave(rewritten, out_path)
    /\ rw_pc' = "rewritten_twice"
    /\ UNCHANGED << src, out_path, pres_var, rewritten, wfvars,
                    log_file, vlvars, wsvars >>

RwNext == Rewrite \/ RewriteAgain

SpecRewrite == RwInit /\ [][RwNext]_vars

\* ------------------------------------------- validate_ppt_code on its own
\* validate_ppt_code is handed a source text.
VlInit ==
    /\ val_pc = "given"
    /\ val_src \in ValidatorInputs
    /\ val_report = NoReport
    /\ WfIdle
    /\ RwIdle
    /\ WsIdle

\* One call: logger.info writes the record "Validating code: <code>" to the
\* handlers of the root logger, then the report is computed and returned.
Validate ==
    /\ val_pc = "given"
    /\ log_file' = log_file + 1
    /\ val_report' = validate_ppt_code(val_src)
    /\ val_pc' = "validated"
    /\ UNCHANGED << val_src, wfvars, rwvars, wsvars >>

VlNext == Validate

SpecValidate == VlInit /\ [][VlNext]_vars

\* ------------------------------- execute_ppt_code called again and again
\* A project folder fresh from create_project_folder, and no workflow.
ExInit ==
    /\ email_recipient = FALSE
    /\ max_iterations = 1
    /\ template_on_path \in BOOLEAN
    /\ pc = "idle"
    /\ node = Supervisor
    /\ last_agent = "none"
    /\ events = 0
    /\ workflow_log = << >>
    /\ agent_outputs = [ n \in Nodes |-> {} ]
    /\ result = NoResult
    /\ ppt_code = NoCode
    /\ has_code = FALSE
    /\ validation = "none"
    /\ execution = NoExecution
    /\ fs = [ NoFiles EXCEPT !.folder = TRUE ]
    /\ email = NoEmail
    /\ counters = NoCounters
    /\ log_file = 0
    /\ RwIdle
    /\ VlIdle
    /\ WsIdle

\* One more call of execute_ppt_code(code, project_folder) with the default
\* filename, on the same project folder.
ExecuteCall ==
    /\ pc = "idle"
    /\ fs.folder
    /\ counters.executions < MaxCalls
    /\ \E code \in CandidateSources :
         \E child \in ChildOf(code) :
           LET run == execute_ppt_code(code, fs, template_on_path, child)
           IN /\ execution' = [ called |-> TRUE, code |-> code,
                                validated |-> "none", dependency |-> "none",
                                artifact_before |-> fs.artifact,
                                spawns |-> run.spawns, ret |-> run.ret ]
              /\ fs' = run.fs
    /\ counters' = [ counters EXCEPT !.executions = @ + 1 ]
    /\ UNCHANGED << email_recipient, max_iterations, template_on_path, pc, node,
                    last_agent, events, workflow_log, agent_outputs, result,
                    ppt_code, has_code, validation, email, log_file, auxvars >>

ExNext == ExecuteCall

SpecExecute == ExInit /\ [][ExNext]_vars

\* --------------------------------------------- two requests, one machine
\* Two calls of generate_powerpoint_presentation with distinct thread_ids,
\* served by one process (one working directory, one clock).
Requests == {"thread_1", "thread_2"}

Topics == {"Solar Energy", "Wind Power"}

\* str(uuid.uuid4())[:8]: eight hexadecimal digits drawn at random.
UniqueIds == {"1f3a9c2e", "b07d44e1"}

NoFolder == << >>

\* f"ppt_presentation_{topic}_{timestamp}_{unique_id}" under
\* cwd/generated_presentations.
FolderName(topic, timestamp, unique_id) == << topic, timestamp, unique_id >>

\* A project_folder argument an agent writes when no folder was created in
\* its conversation.
OwnPath(r) == << "path chosen by", r >>

WsInit ==
    /\ ws_pc = [ r \in Requests |-> "planning" ]
    /\ ws_topic \in [ Requests -> Topics ]
    /\ ws_now = 1
    /\ ws_folder = [ r \in Requests |-> NoFolder ]
    /\ ws_dirs = {}
    /\ ws_built = {}
    /\ ws_writes = {}
    /\ WfIdle
    /\ RwIdle
    /\ VlIdle

\* datetime.now() moves on.
Tick ==
    /\ ws_now < MaxSeconds
    /\ ws_now' = ws_now + 1
    /\ UNCHANGED << ws_pc, ws_topic, ws_folder, ws_dirs, ws_built, ws_writes,
                    wfvars, log_file, rwvars, vlvars >>

\* The planner of request r calls create_project_folder(topic):
\* mkdir(parents=True, exist_ok=True) succeeds whether or not the folder is
\* already there.
create_project_folder(r) ==
    /\ ws_pc[r] = "planning"
    /\ ws_folder[r] = NoFolder
    /\ \E unique_id \in UniqueIds :
         LET project_folder == FolderName(ws_topic[r], ws_now, unique_id)
         IN /\ ws_dirs' = ws_dirs \cup {project_folder}
            /\ ws_built' = ws_built \cup { [ request |-> r, folder |-> project_folder,
                                              existed |-> project_folder \in ws_dirs ] }
            /\ ws_folder' = [ ws_folder EXCEPT ![r] = project_folder ]
    /\ UNCHANGED << ws_pc, ws_topic, ws_now, ws_writes,
                    wfvars, log_file, rwvars, vlvars >>

\* The folders create_project_folder has built (with code/, presentations/,
\* assets/ and logs/ inside).
BuiltFolders == { b.folder : b \in ws_built }

\* The planner of request r calls search_presentation_image(topic,
\* project_folder): download_image makes <project_folder>/assets with
\* mkdir(parents=True, exist_ok=True) and saves the image there.
search_presentation_image(r) ==
    /\ ws_pc[r] = "planning"
    /\ \A w \in ws_writes : ~(w.request = r /\ w.op = "download")
    /\ LET project_folder == IF ws_folder[r] = NoFolder THEN OwnPath(r)
                             ELSE ws_folder[r]
       IN /\ ws_writes' = ws_writes \cup
                { [ request |-> r, op |-> "download", folder |-> project_folder,
                    built_before |-> project_folder \in BuiltFolders ] }
          /\ ws_dirs' = ws_dirs \cup {project_folder}
          /\ ws_folder' = [ ws_folder EXCEPT ![r] = project_folder ]
    /\ UNCHANGED << ws_pc, ws_topic, ws_now, ws_built,
                    wfvars, log_file, rwvars, vlvars >>

\* The planner of request r returns its plan.
PlanComplete(r) ==
    /\ ws_pc[r] = "planning"
    /\ ws_pc' = [ ws_pc EXCEPT ![r] = "planned" ]
    /\ UNCHANGED << ws_topic, ws_now, ws_folder, ws_dirs, ws_built, ws_writes,
                    wfvars, log_file, rwvars, vlvars >>

\* The executor of request r calls execute_ppt_code(code, project_folder):
\* the code file and the presentation are written when
\* <project_folder>/code exists; open() raises otherwise.
ExecuteIn(r) ==
    /\ ws_pc[r] = "planned"
    /\ ws_pc' = [ ws_pc EXCEPT ![r] = "executed" ]
    /\ LET project_folder == IF ws_folder[r] = NoFolder THEN OwnPath(r)
                             ELSE ws_folder[r]
       IN ws_writes' = IF project_folder \in BuiltFolders
                       THEN ws_writes \cup
                            { [ request |-> r, op |-> "execute",
                                folder |-> project_folder, built_before |-> TRUE ] }
                       ELSE ws_writes
    /\ UNCHANGED << ws_topic, ws_now, ws_folder, ws_dirs, ws_built,
                    wfvars, log_file, rwvars, vlvars >>

WsNext ==
    \/ Tick
    \/ \E r \in Requests :
         \/ create_project_folder(r)
         \/ search_presentation_image(r)
         \/ PlanComplete(r)
         \/ ExecuteIn(r)

SpecWorkspace == WsInit /\ [][WsNext]_vars

\* --------------------------------------------------------------- workflow

\* generate_powerpoint_presentation up to the start of the stream.
WfInit ==
    /\ email_recipient \in BOOLEAN
    /\ max_iterations \in 1..MaxIterations
    /\ template_on_path \in BOOLEAN
    /\ pc = "streaming"
    /\ node = Supervisor
    /\ last_agent = "none"
    /\ events = 0
    /\ workflow_log = << >>
    /\ agent_outputs = [ n \in Nodes |-> {} ]
    /\ result = NoResult
    /\ ppt_code = NoCode
    /\ has_code = FALSE
    /\ validation = "none"
    /\ execution = NoExecution
    /\ fs = NoFiles
    /\ email = NoEmail
    /\ counters = NoCounters
    /\ log_file = 0

Init == WfInit /\ RwIdle /\ VlIdle /\ WsIdle

\* Variant: the history keeps one entry per agent, the latest.
Record_KeepsLatest(agent_name, content) ==
    /\ workflow_log' =
         IF \E i \in DOMAIN workflow_log : workflow_log[i].agent = agent_name
         THEN [ i \in DOMAIN workflow_log |->
                  IF workflow_log[i].agent = agent_name
                  THEN [ agent |-> agent_name, content |-> content ]
                  ELSE workflow_log[i] ]
         ELSE Append(workflow_log, [ agent |-> agent_name, content |-> content ])
    /\ agent_outputs' = [ agent_outputs EXCEPT ![agent_name] = content ]
    /\ events' = events + 1

\* The body of the for loop: one event of the stream is logged.
Record(agent_name, content) ==
    /\ workflow_log' = Append(workflow_log, [ agent |-> agent_name, content |-> content ])
    /\ agent_outputs' = [ agent_outputs EXCEPT ![agent_name] = content ]
    /\ events' = events + 1

Streaming(n) == pc = "streaming" /\ node = n /\ events < MaxEvents

ExecutionFailed == execution.called /\ execution.ret.status # "success"

\* Where the supervisor may hand off next: the order its prompt fixes, and,
\* where the prompt is silent (a stage that did not complete its task),
\* either another generation or going on.
Handoffs ==
    CASE last_agent = "none"    -> {Planner}
      [] last_agent = Planner   -> {Generator}
      [] last_agent = Generator -> {Validator}
      [] last_agent = Validator ->
            {Executor} \cup (IF validation = "fail" THEN {Generator} ELSE {})
      [] last_agent = Executor  ->
            (IF email_recipient THEN {Emailer} ELSE {EndNode})
            \cup (IF ExecutionFailed THEN {Generator, EndNode} ELSE {})
      [] last_agent = Emailer   -> {EndNode}

SupervisorStep ==
    /\ Streaming(Supervisor)
    /\ \E next \in Handoffs :
         /\ node' = next
         /\ counters' = IF next = Generator /\ last_agent \in {Validator, Executor}
                        THEN [ counters EXCEPT !.iteration_count = @ + 1 ]
                        ELSE counters
    /\ Record(Supervisor, {})
    /\ UNCHANGED << email_recipient, max_iterations, template_on_path, pc,
                    last_agent, result, ppt_code, has_code, validation,
                    execution, fs, email, log_file, auxvars >>

\* content_planner_agent: plans; create_project_folder is among its tools.
PlannerStep ==
    /\ Streaming(Planner)
    /\ \E creates \in BOOLEAN : fs' = [ fs EXCEPT !.folder = @ \/ creates ]
    /\ Record(Planner, {})
    /\ node' = Supervisor
    /\ last_agent' = Planner
    /\ UNCHANGED << email_recipient, max_iterations, template_on_path, pc,
                    result, ppt_code, has_code, validation, execution, email,
                    counters, log_file, auxvars >>

\* ppt_code_generator_agent: writes a candidate source.
GeneratorStep ==
    /\ Streaming(Generator)
    /\ \E code \in CandidateSources :
         /\ ppt_code' = code
         /\ counters' = [ counters EXCEPT
                            !.generations = @ + 1,
                            !.passing = IF ReportPasses(validate_ppt_code(code))
                                        THEN @ + 1 ELSE @ ]
    /\ has_code' = TRUE
    /\ validation' = "none"
    /\ Record(Generator, {})
    /\ node' = Supervisor
    /\ last_agent' = Generator
    /\ UNCHANGED << email_recipient, max_iterations, template_on_path, pc,
                    result, execution, fs, email, log_file, auxvars >>

\* code_validator_agent: calls validate_ppt_code on the candidate.
ValidatorStep ==
    /\ Streaming(Validator)
    /\ validation' = IF ReportPasses(validate_ppt_code(ppt_code)) THEN "pass" ELSE "fail"
    /\ log_file' = log_file + 1
    /\ Record(Validator, {})
    /\ node' = Supervisor
    /\ last_agent' = Validator
    /\ UNCHANGED << email_recipient, max_iterations, template_on_path, pc,
                    result, ppt_code, has_code, execution, fs, email,
                    counters, auxvars >>

\* ppt_executor_agent: verifies python-pptx with check_pptx_installation,
\* then calls execute_ppt_code on the candidate, and reports.
ExecutorStep ==
    /\ Streaming(Executor)
    /\ \E child \in ChildOf(ppt_code), style \in ReportStyles, pptx \in PptxStates :
         LET run == execute_ppt_code(ppt_code, fs, template_on_path, child)
         IN /\ execution' = [ called |-> TRUE, code |-> ppt_code,
                              validated |-> validation,
                              dependency |-> check_pptx_installation(pptx).status,
                              artifact_before |-> fs.artifact,
                              spawns |-> run.spawns,
                              ret |-> run.ret ]
            /\ fs' = run.fs
            /\ Record(Executor, ExecutorMessage(run.ret, style))
    /\ counters' = [ counters EXCEPT !.executions = @ + 1 ]
    /\ node' = Supervisor
    /\ last_agent' = Executor
    /\ UNCHANGED << email_recipient, max_iterations, template_on_path, pc,
                    result, ppt_code, has_code, validation, email, log_file, auxvars >>

\* email_sender_agent: calls send_presentation_email and reports.
EmailerStep ==
    /\ Streaming(Emailer)
    /\ \E smtp \in SmtpOutcomes, style \in ReportStyles,
          ppt_path \in AttachmentPaths(execution.ret) :
         LET sent == send_presentation_email(ppt_path, fs, smtp)
         IN /\ email' = [ called |-> TRUE, success |-> sent.success,
                          attached |-> sent.attached, path |-> ppt_path,
                          after |-> execution.ret.status, stage |-> node ]
            /\ Record(Emailer, EmailerMessage(sent, style))
    /\ counters' = [ counters EXCEPT !.sends = @ + 1 ]
    /\ node' = Supervisor
    /\ last_agent' = Emailer
    /\ UNCHANGED << email_recipient, max_iterations, template_on_path, pc,
                    result, ppt_code, has_code, validation, execution, fs,
                    log_file, auxvars >>

is_successful(executor_output) ==
    \E indicator \in success_indicators : indicator \in executor_output

email_was_sent(email_output) ==
    EmailOk \in email_output \/ CheckMark \in email_output

\* Variant: a requested delivery that was not confirmed fails the run.
Return_DeliveryGatesSuccess ==
    /\ pc = "streaming"
    /\ node = EndNode
    /\ result' = [ success |-> /\ is_successful(agent_outputs[Executor])
                                /\ ( email_recipient
                                     => email_was_sent(agent_outputs[Emailer]) ),
                   email_sent |-> email_was_sent(agent_outputs[Emailer]),
                   error |-> "none",
                   delivery_status |-> TRUE,
                   ppt_path |-> "None",
                   history |-> workflow_log ]
    /\ pc' = "returned"
    /\ UNCHANGED << email_recipient, max_iterations, template_on_path, node,
                    last_agent, events, workflow_log, agent_outputs,
                    ppt_code, has_code, validation, execution, fs, email,
                    counters, log_file, auxvars >>

\* The stream is exhausted: analyse the outputs and return the result.
Return ==
    /\ pc = "streaming"
    /\ node = EndNode
    /\ result' = [ success |-> is_successful(agent_outputs[Executor]),
                   email_sent |-> email_was_sent(agent_outputs[Emailer]),
                   error |-> "none",
                   delivery_status |-> TRUE,
                   ppt_path |-> "None",
                   history |-> workflow_log ]
    /\ pc' = "returned"
    /\ UNCHANGED << email_recipient, max_iterations, template_on_path, node,
                    last_agent, events, workflow_log, agent_outputs,
                    ppt_code, has_code, validation, execution, fs, email,
                    counters, log_file, auxvars >>

\* Variant: the except branch builds the error result and the loop goes on.
ReturnError_KeepsStreaming ==
    /\ pc = "streaming"
    /\ node # EndNode
    /\ result' = [ success |-> FALSE, email_sent |-> FALSE,
                   error |-> "exception", delivery_status |-> FALSE,
                   ppt_path |-> "absent",
                   history |-> workflow_log ]
    /\ UNCHANGED << email_recipient, max_iterations, template_on_path, pc, node,
                    last_agent, events, workflow_log, agent_outputs,
                    ppt_code, has_code, validation, execution, fs, email,
                    counters, log_file, auxvars >>

\* The stream raises (a failed model call, the graph's step limit): the
\* except branch returns.
ReturnError ==
    /\ pc = "streaming"
    /\ node # EndNode
    /\ result' = [ success |-> FALSE, email_sent |-> FALSE,
                   error |-> "exception", delivery_status |-> FALSE,
                   ppt_path |-> "absent",
                   history |-> workflow_log ]
    /\ pc' = "returned"
    /\ UNCHANGED << email_recipient, max_iterations, template_on_path, node,
                    last_agent, events, workflow_log, agent_outputs,
                    ppt_code, has_code, validation, execution, fs, email,
                    counters, log_file, auxvars >>

Next ==
    \/ SupervisorStep
    \/ PlannerStep
    \/ GeneratorStep
    \/ ValidatorStep
    \/ ExecutorStep
    \/ EmailerStep
    \/ Return
    \/ ReturnError

Spec == Init /\ [][Next]_vars

FairSpec == Spec /\ WF_vars(Next)

\* ------------------------------------------------------------------ claims
Returned == pc = "returned"
ReturnedNormally == Returned /\ result.error = "none"

\* The content of the last entry `agent_name` left in the history ({} if none).
LastEntry(log, agent_name) ==
    LET idx == { i \in 1..Len(log) : log[i].agent = agent_name }
    IN IF idx = {} THEN {}
       ELSE log[CHOOSE i \in idx : \A j \in idx : j <= i].content

\* C1: execute_ppt_code is only ever called on a candidate whose most recent
\* validation report passed (never after a failing or a missing validation).
C1_ExecuteOnlyValidated ==
    execution.called => execution.validated = "pass"

\* C2 (scenario A): without a recipient, when the generated source passes
\* validation and saves, the run ends with success = true, the artifact in
\* the output directory, and no delivery.
C2_ScenarioA ==
    ( /\ ReturnedNormally
      /\ ~email_recipient
      /\ counters.generations = 1
      /\ execution.called
      /\ execution.validated = "pass"
      /\ execution.code.saves )
    => ( /\ result.success
         /\ fs.artifact
         /\ execution.ret.ppt_path = OutputPath
         /\ counters.sends = 0 )

\* C3: the number of failures that sent the workflow back to generation
\* never decreases and never exceeds the request's max_iterations.
C3_IterationBounded ==
    [][ /\ counters'.iteration_count >= counters.iteration_count
        /\ counters'.iteration_count <= max_iterations' ]_vars

\* C4: when every generated source has blocking findings, the run ends
\* FAILED after exactly max_iterations generation attempts and without any
\* execution.
C4_ValidationExhausted ==
    ( ReturnedNormally /\ counters.generations > 0 /\ counters.passing = 0 )
    => ( /\ counters.generations = max_iterations
         /\ counters.executions = 0
         /\ ~result.success )

\* C5: a run returns exactly one final result: it does return, and once it
\* has, no stage runs and nothing is appended to the history.
C5_TerminalOnce ==
    /\ [][ Returned => ( /\ pc' = pc
                         /\ result' = result
                         /\ workflow_log' = workflow_log
                         /\ events' = events
                         /\ counters' = counters ) ]_vars
    /\ [][ result # NoResult => result' = result /\ workflow_log' = workflow_log ]_vars
    /\ <>Returned

C5_Witness ==
    Returned /\ result.error = "none" /\ Len(workflow_log) > 8

\* C6: after an execution that ended in warning or error the supervisor goes
\* back to generation, counting one more iteration, unless the iterations are
\* exhausted, and then it ends the run; after a success it goes to delivery
\* when there is a recipient and ends the run otherwise.
C6_AfterExecution ==
    [][ ( node = Supervisor /\ last_agent = Executor /\ node' # node )
        => IF execution.ret.status = "success"
           THEN node' = (IF email_recipient THEN Emailer ELSE EndNode)
           ELSE IF counters.iteration_count < max_iterations
           THEN /\ node' = Generator
                /\ counters'.iteration_count = counters.iteration_count + 1
           ELSE node' = EndNode ]_vars

C8_SendOnlyAfterSuccess ==
    /\ ( email.called => ( /\ email.stage = Emailer
                           /\ email.after = "success"
                           /\ email_recipient ) )
    /\ ( ( Returned /\ ~email_recipient )
         => ( counters.sends = 0 /\ ~result.email_sent ) )

\* C9: a spawned child is classified by exit code and artifact: exit 0 with
\* the artifact present is success with ppt_path set, exit 0 without it is
\* warning with empty ppt_path, a non-zero exit is error carrying stderr,
\* and an expired deadline is the timeout error.
C9_Classification ==
    ( execution.called /\ execution.ret.spawned )
    => LET r == execution.ret
       IN /\ ( r.exit = "exit0" /\ r.artifact_present
               => r.status = "success" /\ r.ppt_path = OutputPath )
          /\ ( r.exit = "exit0" /\ ~r.artifact_present
               => r.status = "warning" /\ r.ppt_path = "" )
          /\ ( r.exit = "nonzero"
               => /\ r.status = "error" /\ r.kind = "failed" /\ r.ppt_path = ""
                  /\ ( r.stderr # "" => r.error = r.stderr ) )
          /\ ( r.exit = "timeout"
               => r.status = "error" /\ r.kind = "timed_out" /\ r.ppt_path = "" )
          /\ r.exit \in {"exit0", "nonzero", "timeout"}

C9_Witness ==
    /\ execution.called /\ execution.ret.spawned
    /\ execution.ret.exit = "exit0" /\ ~execution.ret.artifact_present
    /\ execution.ret.status = "warning"

\* C10: after the rewrite every save call of a well-formed source has
\* exactly the output path as its argument with the rest of the source
\* unchanged, and rewriting the rewritten source changes nothing.
C10_SaveRelocated ==
    ( rw_pc = "rewritten_twice" /\ Balanced(src) /\ Contains(src, SaveTok) )
    => ( /\ rewritten = SaveCallsRelocated(src, out_path)
         /\ rewritten_twice = rewritten )

\* C11: for a source that imports the design-system module, execute_ppt_code
\* copies the module into the project folder and goes on to write the
\* finalized source and spawn the child, wherever the process was started.
C11_TemplateStaged ==
    ( execution.called /\ execution.code.template_import # "none" )
    => ( /\ fs.template_copy
         /\ fs.code_file
         /\ execution.ret.spawned )

\* C12: the child is spawned only when python-pptx was verified available in
\* that attempt, and a failed or timed-out installation ends the attempt as
\* dependency-unavailable without running the candidate.
C12_DependencyVerified ==
    execution.called
    => ( /\ ( execution.ret.spawned
              => execution.dependency \in {"already_installed", "newly_installed"} )
         /\ ( execution.dependency = "error"
              => ( ~execution.ret.spawned
                   /\ execution.ret.kind = "dependency_unavailable" ) ) )

\* C13: when execute_ppt_code returns the timeout error, the child has been
\* killed and nothing the attempt wrote is left: no presentation file that
\* was not there before the attempt.
C13_TimeoutCleansUp ==
    ( execution.called /\ execution.ret.kind = "timed_out" )
    => ( /\ execution.ret.exit = "timeout"
         /\ execution.ret.status = "error"
         /\ ( fs.artifact => execution.artifact_before ) )

\* C14: a source without a save call gets exactly one save call appended,
\* on the presentation the source built and with the output path as its
\* argument, so that the presentation is written there.
C14_SaveAppended ==
    ( rw_pc \in {"rewritten", "rewritten_twice"} /\ ~Contains(src, SaveTok) )
    => rewritten = src \o << pres_var, SaveTok >> \o SaveArgument(out_path)
                       \o << CloseTok >>

\* C15: one call of execute_ppt_code runs the child at most once, whatever
\* the child's outcome; it ran it once exactly when it reports a child.
C15_SpawnedAtMostOnce ==
    execution.called
    => ( /\ execution.spawns <= 1
         /\ ( execution.ret.spawned <=> execution.spawns = 1 ) )

\* A call whose child exited non-zero, and one whose child timed out, exist.
C15_Witness ==
    /\ execution.called
    /\ execution.ret.kind = "failed"
    /\ execution.spawns = 1

\* -- validate_ppt_code on its own
Validated == val_pc = "validated"

Findings(report) == { report.errors[i] : i \in DOMAIN report.errors }

\* C16 as stated: every source without the design-system import gets a
\* failing report with a finding that cites the import.
C16_MissingImportCited ==
    ( Validated /\ val_src.template_import # "create_template" )
    => ( /\ val_report.errors # << >>
         /\ MissingImport \in Findings(val_report) )

\* C16: every source without the design-system import gets a failing report;
\* when the source parses, the report has a finding that cites the import,
\* and when it does not, the syntax finding stands alone.
C16_MissingImportCitedWhenParsed ==
    ( Validated /\ val_src.template_import # "create_template" )
    => ( /\ val_report.errors # << >>
         /\ ( val_src.syntax_valid => MissingImport \in Findings(val_report) )
         /\ ( ~val_src.syntax_valid => Findings(val_report) = {SyntaxError} ) )

C16_Witness ==
    /\ Validated
    /\ val_src.syntax_valid
    /\ val_src.template_import = "other"
    /\ val_src.uses_template
    /\ MissingImport \in Findings(val_report)

\* C17: a source that does not parse gets exactly one blocking finding, the
\* syntax finding, and no warning: none of the later checks is run, whatever
\* else the text holds.
C17_SyntaxShortCircuits ==
    ( Validated /\ ~val_src.syntax_valid )
    => ( /\ val_report.errors = << SyntaxError >>
         /\ val_report.warnings = << >>
         /\ ~val_report.syntax_valid )

\* A text that does not parse and would fail every later check.
C17_Witness ==
    /\ Validated
    /\ ~val_src.syntax_valid
    /\ val_src.template_import = "none"
    /\ ~val_src.uses_template
    /\ val_src.constructs_presentation
    /\ val_src.content_slide
    /\ \E p \in LeakPatternSet : val_src.leaks[p].in_content > 0
    /\ ~val_src.saves

\* The blocking findings of a source that parses, given what counts as
\* bypassing the design system.
BlockingFindings(code, bypasses) ==
    (IF code.template_import # "create_template"
     THEN << MissingImport >> ELSE << >>)
    \o (IF ~code.uses_template THEN << MissingFactory >> ELSE << >>)
    \o (IF bypasses THEN << RawPptx >> ELSE << >>)

\* C18 as stated: for a source that parses the blocking findings are one for
\* a missing import, one for a missing factory call and one for a direct
\* construction of a presentation object; the report passes iff none holds.
C18_ThreeBlockingFindings ==
    ( Validated /\ val_src.syntax_valid )
    => ( /\ val_report.errors
              = BlockingFindings(val_src, val_src.constructs_presentation)
         /\ ( ReportPasses(val_report)
              <=> ( /\ val_src.template_import = "create_template"
                    /\ val_src.uses_template
                    /\ ~val_src.constructs_presentation ) ) )

\* C18: for a source that parses the blocking findings are one for a
\* missing import, one for a missing factory call and one for raw python-pptx
\* use, which is a Presentation() construction or an import of pptx; the
\* report passes iff none holds, whatever the warnings.
C18_ThreeBlockingFindingsRaw ==
    ( Validated /\ val_src.syntax_valid )
    => ( /\ val_report.errors
              = BlockingFindings(val_src, val_src.constructs_presentation
                                          \/ val_src.imports_pptx)
         /\ ( ReportPasses(val_report)
              <=> ( /\ val_src.template_import = "create_template"
                    /\ val_src.uses_template
                    /\ ~val_src.constructs_presentation
                    /\ ~val_src.imports_pptx ) ) )

\* A passing report that carries every warning.
C18_Witness ==
    /\ Validated
    /\ val_src.syntax_valid
    /\ ReportPasses(val_report)
    /\ Len(val_report.warnings) = Len(LeakPatterns) + 2

\* C20: a call of validate_ppt_code changes no file, the log file included,
\* and nothing of the workflow: it only returns its report.
C20_ValidateWritesNothing ==
    [][ ( val_pc = "given" /\ val_pc' = "validated" )
        => ( log_file' = log_file /\ fs' = fs /\ UNCHANGED wfvars ) ]_vars

Warnings(report) == { report.warnings[i] : i \in DOMAIN report.warnings }

\* C21: for a source that parses, the theme warning is given exactly when
\* the source does not select exactly one of the four themes in its factory
\* call, and the theme check never gives a blocking finding.
C21_ThemeWarning ==
    ( Validated /\ val_src.syntax_valid )
    => ( /\ ( ThemeWarning \in Warnings(val_report)
              <=> val_src.theme_call \notin {"double_quoted", "single_quoted"} )
         /\ ThemeWarning \notin Findings(val_report) )

\* The number of warnings the report gives for one pattern.
WarningsFor(report, pattern) ==
    Cardinality({ i \in DOMAIN report.warnings :
                    report.warnings[i] = LeakWarning(pattern) })

\* C22: the leakage check gives one warning per occurrence of a pattern in
\* the text arguments of create_content_slide, and none for a pattern that
\* occurs only elsewhere in the source.
C22_LeakWarningPerOccurrence ==
    ( Validated /\ val_src.syntax_valid )
    => \A p \in LeakPatternSet :
         WarningsFor(val_report, p) = val_src.leaks[p].in_content

\* -- two requests
\* The requests whose create_project_folder call built the folder.
Owners(folder) == { b.request : b \in { x \in ws_built : x.folder = folder } }

\* C23: two requests get different project folders, and no operation of one
\* request writes into a folder built for the other.
C23_WorkspacesIsolated ==
    /\ \A r1, r2 \in Requests :
         ( r1 # r2 /\ ws_pc # << >>
           /\ ws_folder[r1] # NoFolder /\ ws_folder[r2] # NoFolder )
         => ws_folder[r1] # ws_folder[r2]
    /\ \A b \in ws_built : ~b.existed
    /\ \A w \in ws_writes : Owners(w.folder) \subseteq {w.request}

\* C24: every write of a request goes into a folder that
\* create_project_folder built for that request before the write, and the
\* request has one such folder only.
C24_WorkspaceBeforeWrites ==
    /\ \A w \in ws_writes :
         /\ w.built_before
         /\ w.request \in Owners(w.folder)
    /\ \A d \in ws_dirs : d \in BuiltFolders
    /\ \A r \in Requests :
         Cardinality({ b \in ws_built : b.request = r }) <= 1

\* C25: whatever ended the run, the returned result has the success flag,
\* the whole history, the delivery status when delivery was asked for, and
\* the path of the presentation when an execution produced it.
C25_ResultComplete ==
    Returned
    => ( /\ result.success \in BOOLEAN
         /\ result.history = workflow_log
         /\ ( email_recipient => result.delivery_status )
         /\ ( ( execution.called /\ execution.ret.status = "success" )
              => result.ppt_path = execution.ret.ppt_path ) )

C28_SuccessOnlyAfterSuccess ==
    ( Returned /\ result.success )
    => ( execution.called /\ execution.ret.status = "success" )

\* C29: a call returns status success only if its own child wrote the file
\* at the output path; a child that exits 0 without saving gives warning
\* even when an earlier execution left a file there.
C29_SuccessOnlyOwnArtifact ==
    execution.called
    => ( /\ ( execution.ret.status = "success" => execution.ret.saved )
         /\ ( ( execution.ret.exit = "exit0" /\ ~execution.ret.saved )
              => execution.ret.status = "warning" ) )

\* C30: a send that was given an attachment path reports success only if
\* the file at that path was attached to the message sent.
C30_SentMeansAttached ==
    ( email.called /\ email.path # "" /\ email.success )
    => email.attached

====
